---- MODULE Spec2Model ----
(***************************************************************************)
(* Model of the agent-to-agent demo: the phase-managed conversation loop   *)
(* of App.tsx (startConversation, stop/pause/resume, balance refresh,      *)
(* funding) and the useAgent hook (register, sendPayment, sendAIMessage).  *)
(*                                                                         *)
(* Granularity: JavaScript runs one task at a time.  An action of the      *)
(* model is the code that runs between two real suspensions (a network or  *)
(* chain call, a timer): the completion of the awaited call together with  *)
(* the synchronous code that follows it up to the next awaited call.       *)
(* Button handlers (stop, pause, resume, start, fund) and the refresh      *)
(* timer are tasks of their own and interleave between those.              *)
(*                                                                         *)
(* Units: token amounts are counted in hundredths of a USDT (the           *)
(* precision of the cached balance, toFixed(2)); the pipeline compares     *)
(* amount * 1e6 with the on-chain balance in 1e-6 units, which for         *)
(* balances that are multiples of 0.01 is the same comparison.             *)
(***************************************************************************)
EXTENDS Integers, Sequences, FiniteSets, TLC

\* ------------------------------------------------------------------ bounds
MaxRuns == 2
MaxFunds == 1
MaxAiErrors == 1
MaxCalls == 2
MaxWithdraws == 1
MaxRegs == 2
MaxWords == 3
MaxTurns == 1
MaxItems == 4
MaxTokens == 130

\* ------------------------------------------------------- program constants
UNIT == 100
BudgetCap == 1500
MaxAmount == 10000
FundUsdt == 2000
HistoryScan == 8
DefaultCap == 500
DeliveryCap == 1200
FallbackLen == 19
ErrorPrefixLen == 12
FirstProbe == 64

\* the approved amount 2^256 - 1, held as a number above every amount of the model
Unlimited == 1000000
Agents == {"agentA", "agentB"}

Min(a, b) == IF a <= b THEN a ELSE b

\* Math.floor of a balance held in hundredths, as a number of hundredths
Floor(c) == (c \div UNIT) * UNIT

\* ------------------------------------------------------------------- texts
\* A message is a sequence of tokens: words, and numbers (in hundredths).
W(s) == [w |-> s, n |-> 0]
N(k) == [w |-> "#", n |-> k]
IsNum(t) == t.w = "#"
IsWord(t, S) == t.w \in S

\* The messages the language model (after sanitizeResponse) is drawn from, by name.
Tokens(m) ==
  CASE m = "Hello" -> <<W("hello")>>
    [] m = "Quote" -> <<W("rate"), N(700), W("usdt")>>
    [] m = "SendTen" ->
         <<W("great"), W("work"), W("ill"), W("send"), N(1000), W("usdt"), W("now")>>
    [] m = "SendFifteen" ->
         <<W("great"), W("work"), W("ill"), W("send"), N(1500), W("usdt"), W("now")>>
    [] m = "SendIt" ->
         <<W("great"), W("work"), W("ill"), W("send"), W("the"), W("payment")>>
    [] m = "Thanks" -> <<W("thanks")>>
    [] OTHER -> <<W("ai"), W("error")>>
\* the text sendAIMessage returns when the language-model call throws
AiError == "AiError"

\* no amount: extractAmount's null (its results are tested for truthiness)
NoAmount == 0

InRange(n) == n > 0 /\ n <= MaxAmount

Tok(text, i) == IF i \in 1..Len(text) THEN text[i] ELSE W("")

\* the five patterns of extractAmount, each with the position of its capture
PatNumUsdt(text, i) == IsNum(Tok(text, i)) /\ IsWord(Tok(text, i + 1), {"usdt"})
PatUsdtNum(text, i) == IsWord(Tok(text, i), {"usdt"}) /\ IsNum(Tok(text, i + 1))
PatDollar(text, i) == IsWord(Tok(text, i), {"$"}) /\ IsNum(Tok(text, i + 1))
PatPayment(text, i) ==
  /\ IsWord(Tok(text, i), {"payment"})
  /\ \/ IsNum(Tok(text, i + 1))
     \/ IsWord(Tok(text, i + 1), {"of"}) /\ IsNum(Tok(text, i + 2))
PatSend(text, i) == IsWord(Tok(text, i), {"send", "pay", "transfer"}) /\ IsNum(Tok(text, i + 1))

\* pattern k of the list, in its order
Pat(k, text, i) ==
  CASE k = 1 -> PatNumUsdt(text, i)
    [] k = 2 -> PatUsdtNum(text, i)
    [] k = 3 -> PatDollar(text, i)
    [] k = 4 -> PatPayment(text, i)
    [] OTHER -> PatSend(text, i)

\* text.match(p): the leftmost position at which pattern k matches, 0 if none
FirstAt(text, k) ==
  IF \E i \in 1..Len(text) : Pat(k, text, i)
  THEN CHOOSE i \in 1..Len(text) : Pat(k, text, i) /\ \A j \in 1..(i - 1) : ~Pat(k, text, j)
  ELSE 0

\* the number captured by pattern k in text (NoAmount when the pattern does not match)
Capture(text, k) ==
  LET i == FirstAt(text, k)
  IN IF i = 0 THEN NoAmount
     ELSE CASE k = 1 -> text[i].n
            [] k = 4 -> IF IsNum(Tok(text, i + 1)) THEN text[i + 1].n ELSE text[i + 2].n
            [] OTHER -> text[i + 1].n

Hit(text, k) == InRange(Capture(text, k))

\* extractAmount that gives up when the first pattern that matches is out of range
extractAmountFirstMatch(text) ==
  IF \E k \in 1..5 : FirstAt(text, k) # 0
  THEN LET k == CHOOSE k \in 1..5 : FirstAt(text, k) # 0 /\ \A j \in 1..(k - 1) : FirstAt(text, j) = 0
       IN IF Hit(text, k) THEN Capture(text, k) ELSE NoAmount
  ELSE NoAmount

extractAmount(text) ==
  IF \E k \in 1..5 : Hit(text, k)
  THEN Capture(text, CHOOSE k \in 1..5 : Hit(text, k) /\ \A j \in 1..(k - 1) : ~Hit(text, j))
  ELSE NoAmount

\* the four intent patterns; "send" and "pay" also match inside longer words
HasSend(t) == IsWord(t, {"send", "sending"})
HasPay(t) == IsWord(t, {"pay", "payment", "paying"})
HasIntent(text) ==
  \/ \E i \in 1..Len(text) :
       /\ IsWord(Tok(text, i), {"ill", "i will", "im going to", "let me"})
       /\ IsWord(Tok(text, i + 1), {"send", "pay", "transfer", "sending", "payment", "paying"})
  \/ \E i \in 1..Len(text) :
       /\ IsWord(Tok(text, i), {"sending"})
       /\ LET j == IF IsWord(Tok(text, i + 1), {"you"}) THEN i + 2 ELSE i + 1
              k == IF IsWord(Tok(text, j), {"the"}) THEN j + 1 ELSE j
          IN IsWord(Tok(text, k), {"payment", "usdt"}) \/ IsNum(Tok(text, k))
  \/ \E i \in 1..Len(text) :
       /\ IsWord(Tok(text, i), {"great"}) /\ IsWord(Tok(text, i + 1), {"work"})
       /\ \E j \in (i + 2)..Len(text) : HasSend(text[j]) \/ HasPay(text[j])
  \/ \E i \in 1..Len(text) :
       /\ IsWord(Tok(text, i), {"heres", "here is"})
       /\ LET j == IF IsWord(Tok(text, i + 1), {"the"}) THEN i + 2 ELSE i + 1
          IN \/ IsWord(Tok(text, j), {"payment"})
             \/ IsWord(Tok(text, j), {"your"}) /\ IsWord(Tok(text, j + 1), {"payment"})

Reverse(s) == [i \in 1..Len(s) |-> s[Len(s) + 1 - i]]
Take(s, n) == SubSeq(s, 1, Min(n, Len(s)))

\* the first extractable amount of a sequence of texts, NoAmount if none
RECURSIVE FirstHit(_)
FirstHit(texts) ==
  IF texts = <<>> THEN NoAmount
  ELSE IF extractAmount(Head(texts)) # NoAmount
       THEN extractAmount(Head(texts))
       ELSE FirstHit(Tail(texts))

\* the first extractable amount of a sequence of turns, NoAmount if none
FirstAmount(turns) == FirstHit([k \in DOMAIN turns |-> Tokens(turns[k].message)])

\* DetectIn without the test of the intent patterns
DetectInAnyAmount(text, texts) ==
  IF extractAmount(text) # NoAmount THEN extractAmount(text)
  ELSE FirstHit(Take(Reverse(texts), HistoryScan))

\* detectPaymentIntent on the text of the message and the texts of the history
DetectIn(text, texts) ==
  IF ~HasIntent(text) THEN NoAmount
  ELSE IF extractAmount(text) # NoAmount THEN extractAmount(text)
  ELSE FirstHit(Take(Reverse(texts), HistoryScan))

detectPaymentIntent(message, history) ==
  DetectIn(Tokens(message), [k \in DOMAIN history |-> Tokens(history[k].message)])

\* ------------------------------------------------------- sanitizeResponse
\* A raw text is a sequence of items: a role label with its colon, a run of n other
\* characters (word), a blank, a line break, the markers "**" (star), "## " (hash, with
\* its blank) and "---" (rule).  n is the number of characters.
Item(k, s, n) == [k |-> k, s |-> s, n |-> n]
Labels == {"Employer", "Freelancer", "Agent A", "Agent B", "You"}
Label(s) ==
  Item("label", s, CASE s = "Employer" -> 9 [] s = "Freelancer" -> 11 [] s = "You" -> 4
                     [] OTHER -> 8)
Word(n) == Item("word", "", n)
Blank == Item("space", "", 1)
Newline == Item("nl", "", 1)
Stars == Item("star", "", 2)
Header == Item("hash", "", 3)
Rule == Item("rule", "", 3)

\* \s
IsSpace(x) == x.k \in {"space", "nl"}

\* text.length
RECURSIVE Length(_)
Length(t) == IF t = <<>> THEN 0 ELSE Head(t).n + Length(Tail(t))

RECURSIVE TrimStart(_)
TrimStart(t) == IF t # <<>> /\ IsSpace(Head(t)) THEN TrimStart(Tail(t)) ELSE t

\* String.prototype.trim
Trim(t) == Reverse(TrimStart(Reverse(TrimStart(t))))

\* replace(/#{1,3}\s+/g, ''): the marker goes, with the white space after it
RECURSIVE StripHeaders(_)
StripHeaders(t) ==
  IF t = <<>> THEN <<>>
  ELSE IF Head(t).k = "hash" THEN StripHeaders(TrimStart(Tail(t)))
  ELSE <<Head(t)>> \o StripHeaders(Tail(t))

\* replace(/\*{1,2}([^*]+)\*{1,2}/g, '$1'): a marker, something that holds no marker,
\* and the next marker: the two markers go
RECURSIVE Unstar(_)
Unstar(t) ==
  IF t = <<>> THEN <<>>
  ELSE IF /\ Head(t).k = "star"
          /\ \E j \in 3..Len(t) : t[j].k = "star" /\ \A i \in 2..(j - 1) : t[i].k # "star"
       THEN LET j == CHOOSE j \in 3..Len(t) :
                       t[j].k = "star" /\ \A i \in 2..(j - 1) : t[i].k # "star"
            IN SubSeq(t, 2, j - 1) \o Unstar(SubSeq(t, j + 1, Len(t)))
       ELSE <<Head(t)>> \o Unstar(Tail(t))

\* split('\n')
RECURSIVE SplitLines(_)
SplitLines(t) ==
  IF \E i \in DOMAIN t : t[i].k = "nl"
  THEN LET i == CHOOSE i \in DOMAIN t : t[i].k = "nl" /\ \A j \in 1..(i - 1) : t[j].k # "nl"
       IN <<SubSeq(t, 1, i - 1)>> \o SplitLines(SubSeq(t, i + 1, Len(t)))
  ELSE <<t>>

\* join('\n')
RECURSIVE JoinLines(_)
JoinLines(lines) ==
  IF lines = <<>> THEN <<>>
  ELSE IF Len(lines) = 1 THEN lines[1]
  ELSE lines[1] \o <<Newline>> \o JoinLines(Tail(lines))

\* the labels under which an agent would speak for the other side
OtherLabels(name) ==
  IF name = "agentB" THEN {"Employer", "Agent A", "You"} ELSE {"Freelancer", "Agent B", "You"}

\* /^(...):/i.test(line): the line begins with one of these labels
BeginsWith(line, labels) == line # <<>> /\ line[1].k = "label" /\ line[1].s \in labels

\* the filter of lines 1303-1309
Kept(line, name) ==
  /\ ~BeginsWith(Trim(line), OtherLabels(name))
  /\ Trim(line) # <<Rule>>

\* replace(/^\*?\*?(You|Agent [AB]|Employer|Freelancer):\*?\*?\s*/i, ''), line 1312
StripLabel(t) ==
  LET a == IF t # <<>> /\ t[1].k = "star" THEN 2 ELSE 1
      b == IF a + 1 <= Len(t) /\ t[a + 1].k = "star" THEN a + 2 ELSE a + 1
  IN IF a <= Len(t) /\ t[a].k = "label"
     THEN TrimStart(SubSeq(t, b, Len(t)))
     ELSE t

\* slice(0, m): an item that is cut is a run of characters
RECURSIVE Slice(_, _)
Slice(t, m) ==
  IF t = <<>> \/ m = 0 THEN <<>>
  ELSE IF Head(t).n <= m THEN <<Head(t)>> \o Slice(Tail(t), m - Head(t).n)
  ELSE <<Word(m)>>

\* Capped without the cut
Uncapped(t, m) == t

\* lines 1315-1316
Capped(t, m) == IF Length(t) > m THEN Trim(Slice(t, m)) ELSE t

\* sanitizeResponse of the hook of agent `name`
sanitizeResponse(text, phase, name) ==
  LET plain == Unstar(StripHeaders(text))
      Keep(line) == Kept(line, name)
      lines == SelectSeq(SplitLines(plain), Keep)
      clean == Capped(StripLabel(Trim(JoinLines(lines))),
                      IF phase = "delivery" THEN DeliveryCap ELSE DefaultCap)
  IN IF clean = <<>> THEN <<Word(FallbackLen)>> ELSE clean

\* ------------------------------------------------------ findAgentIdOnChain
\* The registry has minted the token ids 1..minted; `owned` are those of the address.
\* ownerOf(id) throws for an id that was not minted.  Results carry the number of
\* ownerOf reads made so far.

\* UpperBound without the doubling of lines 841-848
UpperBoundFixed(minted) == [high |-> FirstProbe, reads |-> 1]

\* lines 839-848: the upper bound is doubled until ownerOf throws for it
UpperBound(minted) ==
  LET RECURSIVE Expand(_, _)
      Expand(high, n) ==
        IF high \in 1..minted THEN Expand(2 * high, n + 1) ELSE [high |-> high, reads |-> n + 1]
  IN Expand(FirstProbe, 0)

\* findAgentIdOnChain: the id found (0: null) and the number of ownerOf reads
findAgentIdOnChain(minted, owned) ==
  LET RECURSIVE Search(_, _, _)
      Search(low, high, n) ==
        IF low < high
        THEN LET mid == (low + high + 1) \div 2
             IN IF mid \in 1..minted THEN Search(mid, high, n + 1)
                ELSE Search(low, mid - 1, n + 1)
        ELSE [maxId |-> low, reads |-> n]
      \* lines 863-870: from maxId down to 1, the first id whose owner is the address
      Mine(maxId) == {id \in 1..maxId : id \in 1..minted /\ id \in owned}
      Scan(maxId, n) ==
        IF Mine(maxId) # {}
        THEN LET id == CHOOSE id \in Mine(maxId) : \A other \in Mine(maxId) : other <= id
             IN [id |-> id, reads |-> n + (maxId - id) + 1]
        ELSE [id |-> 0, reads |-> n + maxId]
      top == UpperBound(minted)
      found == Search(1, top.high, top.reads)
  IN IF Cardinality(owned) = 0 THEN [id |-> 0, reads |-> 0]
     ELSE Scan(found.maxId, found.reads)

\* ------------------------------------------------------------------- state
VARIABLES
  isRunning,      \* useState isRunning
  isPaused,       \* useState isPaused
  cancelledRef,   \* conversationCancelledRef.current
  pausedRef,      \* conversationPausedRef.current
  network,        \* sdk.getNetwork('fuji').x402: which addresses are configured
  chainUsdt,      \* the payer's token balance on chain
  allowance,      \* the allowance the payer granted to the relayer on chain
  agentABal,      \* useState agentABal.usdt: the cached balance of the payer
  registered,     \* state.registered of each agent hook
  messages,       \* the status messages added by addMessage (type payment / transaction)
  transactions,   \* the hooks' transaction log, in order of addTransaction
  nextTx,         \* number of transaction hashes handed out by the chain so far
  runs,           \* one record per invocation of startConversation
  pays,           \* one record per invocation of sendPayment
  funds,          \* fundAgent: fundingInProgress, and the number of fundings so far
  withdrawal,     \* the payer's transferFundsToOwner of its tokens, and how many so far
  identity,       \* the identity tokens on chain (newest of each address), state.id
  probe           \* a pure function called on its own: its input and its result

vars == <<isRunning, isPaused, cancelledRef, pausedRef, network, chainUsdt, allowance,
          agentABal, registered, messages, transactions, nextTx, runs, pays, funds,
          withdrawal, identity, probe>>

flags == <<isRunning, isPaused, cancelledRef, pausedRef>>
chain == <<network, chainUsdt, allowance>>
logs == <<messages, transactions, nextTx>>

\* the phase table of startConversation
phases ==
  << [name |-> "networking", exchanges |-> 1],
     [name |-> "discovery", exchanges |-> 1],
     [name |-> "negotiation", exchanges |-> 2],
     [name |-> "delivery", exchanges |-> 2],
     [name |-> "payment", exchanges |-> 1] >>

IsPayment(ph) == phases[ph].name = "payment"

\* const budget = Math.min(Math.floor(Number(agentABal.usdt)), 15)
Budget(bal) == Min(Floor(bal), BudgetCap)

\* the texts a language-model call may return for a speaker in a phase
GenTexts(phase, speaker) ==
  CASE phase = "payment" /\ speaker = "agentA" -> {"SendTen", "SendFifteen", "SendIt", "Thanks"}
    [] phase = "negotiation" /\ speaker = "agentB" -> {"Quote"}
    [] phase \in {"payment", "closing"} -> {"Thanks"}
    [] OTHER -> {"Hello"}

LoopPcs == {"pollA", "llmA", "delayA", "pollB", "llmB", "delayB",
            "pollP", "llmP", "delayP", "pay", "confirm", "delayT", "llmT", "delayC", "llmC"}
LlmPcs == {"llmA", "llmB", "llmP", "llmT", "llmC"}

\* One invocation of startConversation: its position, its locals (the phase and
\* exchange of the loop, history), what its closure captured (bal: agentABal.usdt,
\* regs: state.registered of both hooks, key: there is an openRouterKey), the register
\* call it awaits (who, tx; handler "register": the invocation is that of a Register
\* button, which calls register and refreshBalances only) and
\* the sendPayment call it made (pay).  aiLeft: how many of its language-model calls
\* may still throw.  Book-keeping for the properties:
\* stopped: stop() was called while the loop ran, with mark turns in history;
\* released: the cancelled flag has been reset since; superseded: by a start.
NewRun(bal, regs, ai) ==
  [pc |-> "start", phase |-> 1, ex |-> 0, history |-> <<>>, bal |-> bal, regs |-> regs,
   key |-> TRUE, handler |-> "start", who |-> "none", tx |-> 0, pay |-> 0, end |-> "none", aiLeft |-> ai,
   stopped |-> FALSE, mark |-> 0, released |-> FALSE, superseded |-> FALSE]

\* the identity tokens when the addresses of the agents in `minted` hold one on chain
\* and initializeWithSigner found those of the agents in `found` (916-925)
TokenOf(a) == IF a = "agentA" THEN 1 ELSE 2
Held(minted, found) ==
  [next |-> Cardinality(Agents) + 1,
   chain |-> [a \in Agents |-> IF minted[a] THEN TokenOf(a) ELSE 0],
   id |-> [a \in Agents |-> IF found[a] THEN TokenOf(a) ELSE 0]]

\* no pure function is being called on its own
NoProbe == [fn |-> "none", in |-> <<>>, out |-> <<>>, done |-> FALSE]

\* The state once both hooks are initialized and the first refresh has run, for a
\* network configuration, a balance and an allowance of the payer, and the agents
\* already registered on chain.
InitApp(networks, balances, allowances, regs) ==
  /\ isRunning = FALSE /\ isPaused = FALSE
  /\ cancelledRef = FALSE /\ pausedRef = FALSE
  /\ network \in networks
  /\ chainUsdt \in balances
  /\ allowance \in allowances
  /\ agentABal = chainUsdt
  /\ registered \in regs
  /\ messages = <<>> /\ transactions = <<>> /\ nextTx = 0
  /\ runs = <<>> /\ pays = <<>>
  /\ funds = [pc |-> "idle", count |-> 0]
  /\ withdrawal = [pc |-> "idle", count |-> 0, amount |-> 0, tx |-> 0]

\* the same, where initializeWithSigner has found every identity held on chain
InitWith(networks, balances, allowances, regs) ==
  /\ InitApp(networks, balances, allowances, regs)
  /\ identity = Held(registered, registered)
  /\ probe = NoProbe

Configured == [token |-> TRUE, relayer |-> TRUE]
NoRelayer == [token |-> TRUE, relayer |-> FALSE]
NoToken == [token |-> FALSE, relayer |-> TRUE]

\* the application as deployed: the SDK's fuji configuration, a payer that has not
\* approved the relayer yet
Init ==
  InitWith({Configured}, {50, 1250}, {0},
           {[a \in Agents |-> TRUE], [a \in Agents |-> a = "agentA"]})

\* the same, with both agents registered and the payer funded
InitReady == InitWith({Configured}, {1250}, {0}, {[a \in Agents |-> TRUE]})

\* the inputs of startConversation: the agents registered or not
InitStart == InitWith({Configured}, {1250}, {0}, [Agents -> BOOLEAN])

\* the agents registered or not, where initializeWithSigner may have missed an
\* identity held on chain (its catch, 926-930)
InitRegister ==
  /\ InitApp({Configured}, {1250}, {0}, [Agents -> BOOLEAN])
  /\ identity \in {Held(m, registered) :
                     m \in {f \in [Agents -> BOOLEAN] : \A a \in Agents : registered[a] => f[a]}}
  /\ probe = NoProbe

\* the inputs of sendPayment
InitPay ==
  InitWith({Configured, NoRelayer, NoToken}, {0, 50, 1250}, {0, 700, Unlimited},
           {[a \in Agents |-> TRUE]})

\* ------------------------------------------------------- conversation loop
\* Where the loop stands once it reaches the top of an iteration for phase ph with
\* the flags c (cancelled) and p (paused): lines 253, 256, then waitIfPaused and the
\* cancelled check of exchange (237-238) or of the payment branch (260-261).
Top(c, p, ph) ==
  IF c THEN "done"
  ELSE IF IsPayment(ph) THEN (IF p THEN "pollP" ELSE "llmP")
  ELSE (IF p THEN "pollA" ELSE "llmA")

\* lines 309-313 and 322-325: the reset at the end of the loop
EndReset ==
  /\ isRunning' = FALSE /\ isPaused' = FALSE
  /\ cancelledRef' = FALSE /\ pausedRef' = FALSE

\* the runs, with run r (a new one when r is Len(runs) + 1) now as record ru
SetRun(r, ru) == [i \in 1..(IF r > Len(runs) THEN r ELSE Len(runs)) |-> IF i = r THEN ru ELSE runs[i]]

\* book-keeping when run r resets the cancelled flag: the other runs that were stopped
\* are released (by a start: superseded)
Release(rs, r, byStart) ==
  [i \in DOMAIN rs |->
     IF i # r /\ rs[i].stopped
     THEN [rs[i] EXCEPT !.released = TRUE, !.superseded = @ \/ byStart]
     ELSE rs[i]]

\* run r continues as record ru; a run that reaches its end resets the flags
Goto(r, ru) ==
  IF ru.pc = "done"
  THEN runs' = Release(SetRun(r, ru), r, FALSE) /\ EndReset
  ELSE runs' = SetRun(r, ru) /\ UNCHANGED flags

Ended(ru, how) == [ru EXCEPT !.pc = "done", !.end = how]
At(ru, pc) == IF pc = "done" THEN Ended(ru, "loop") ELSE [ru EXCEPT !.pc = pc]

Turn(speaker, phase, m) == [from |-> speaker, phase |-> phase, message |-> m]

\* history.push of the message sendAIMessage returned (its text, or the error text)
Said(ru, speaker, phase, m) ==
  [ru EXCEPT !.history = Append(@, Turn(speaker, phase, m)),
             !.aiLeft = IF m = AiError THEN @ - 1 ELSE @]

LlmOut(ru, phase, speaker) ==
  GenTexts(phase, speaker) \cup (IF ru.aiLeft > 0 THEN {AiError} ELSE {})

\* lines 211-213 and the first pass through the loop down to the first awaited call
BeginLoop(r, ru) ==
  /\ runs' = Release(SetRun(r, At(ru, Top(FALSE, pausedRef, 1))), r, TRUE)
  /\ cancelledRef' = FALSE
  /\ isRunning' = TRUE
  /\ isPaused' = FALSE
  /\ UNCHANGED pausedRef

\* register down to its first awaited chain call (identity.register), line 1006
Registering(ru, a) == [ru EXCEPT !.pc = "regSubmit", !.who = a]

\* lines 207-209 after the registrations in `done`: the next unregistered agent, as
\* the closure of this run saw it when Start was pressed, or the return of line 209
\* without a key, or the loop
AfterRegs(r, ru, done) ==
  IF ru.handler = "register" /\ done # {}
  THEN /\ runs' = SetRun(r, Ended(ru, "register"))
       /\ UNCHANGED flags
  ELSE IF ~ru.regs["agentA"] /\ "agentA" \notin done
  THEN /\ runs' = SetRun(r, Registering(ru, "agentA"))
       /\ UNCHANGED flags
  ELSE IF ~ru.regs["agentB"] /\ "agentB" \notin done
  THEN /\ runs' = SetRun(r, Registering(ru, "agentB"))
       /\ UNCHANGED flags
  ELSE IF ~ru.key
  THEN /\ runs' = SetRun(r, Ended(ru, "nokey"))
       /\ UNCHANGED flags
  ELSE BeginLoop(r, ru)

\* the Start button (rendered while isRunning is false, disabled while the payer's
\* cached balance is zero): startConversation, for at most max runs, in each of which
\* at most ai calls of the language model throw
StartRun(max, ai) ==
  /\ ~isRunning
  /\ agentABal # 0
  /\ Len(runs) < max
  /\ AfterRegs(Len(runs) + 1, NewRun(agentABal, registered, ai), {})
  /\ UNCHANGED <<chain, agentABal, registered, logs, pays, funds, withdrawal, identity, probe>>

\* a session with a single conversation
Start == StartRun(Min(MaxRuns, 1), MaxAiErrors)

\* a session where Start is pressed again
Restart == StartRun(MaxRuns, 0)

\* a session with a single conversation in which no language-model call throws
StartPlain == StartRun(Min(MaxRuns, 1), 0)

\* startConversation invoked on its own, whatever the Start button shows, with an
\* openRouterKey or without one
StartCall ==
  /\ Len(runs) < Min(MaxRuns, 1)
  /\ \E key \in BOOLEAN :
       AfterRegs(Len(runs) + 1, [NewRun(agentABal, registered, 0) EXCEPT !.key = key], {})
  /\ UNCHANGED <<chain, agentABal, registered, logs, pays, funds, withdrawal, identity, probe>>

\* a Register button (653, 656), enabled while state.registered of its agent is false:
\* register down to identity.register
RegisterCall ==
  /\ Len(runs) < MaxRegs
  /\ \E a \in Agents :
       /\ ~registered[a]
       /\ runs' = SetRun(Len(runs) + 1,
                         Registering([NewRun(agentABal, registered, 0)
                                        EXCEPT !.handler = "register"], a))
  /\ UNCHANGED <<flags, chain, agentABal, registered, logs, pays, funds, withdrawal, identity,
                 probe>>

TxMsg(a, status) == [from |-> a, type |-> "transaction", status |-> status]
TxRec(a, type, h, status) == [type |-> type, from |-> a, txHash |-> h, status |-> status]

\* addTransaction that puts the record first, as the log is displayed
addTransactionNewestFirst(txs, rec) == <<rec>> \o txs

\* addTransaction: the record goes to the end of the log
addTransaction(txs, rec) == Append(txs, rec)

\* updateTransaction: every record with that hash gets the status
Updated(txs, h, status) ==
  [i \in DOMAIN txs |-> IF txs[i].txHash = h THEN [txs[i] EXCEPT !.status = status] ELSE txs[i]]

\* the catch of register (1076-1101): a failed message, and a failed record when the
\* error carries the hash h of a transaction (h = 0: it carries none)
RegFailed(a, h) ==
  /\ messages' = Append(messages, TxMsg(a, "failed"))
  /\ transactions' = IF h = 0 THEN transactions
                     ELSE addTransaction(transactions, TxRec(a, "register", h, "failed"))

\* identity.register returns a transaction (1006-1019), or throws
RegSubmit(r) ==
  /\ runs[r].pc = "regSubmit"
  /\ \/ /\ nextTx' = nextTx + 1
        /\ transactions' =
             addTransaction(transactions, TxRec(runs[r].who, "register", nextTx + 1, "pending"))
        /\ runs' = [runs EXCEPT ![r].pc = "regWait", ![r].tx = nextTx + 1]
        /\ UNCHANGED messages
     \/ /\ RegFailed(runs[r].who, 0)
        /\ runs' = [runs EXCEPT ![r].pc = "regRefresh"]
        /\ UNCHANGED nextTx
  /\ UNCHANGED <<flags, chain, agentABal, registered, pays, funds, withdrawal, identity, probe>>

\* tx.wait returns and the agent id is found (1019-1075): the registry has minted a
\* token for the address; or the id is not found, the token minted or not; or tx.wait
\* or the query of the id throws, with the transaction in the error or without
RegWait(r) ==
  /\ runs[r].pc = "regWait"
  /\ \/ /\ registered' = [registered EXCEPT ![runs[r].who] = TRUE]
        /\ identity' = [identity EXCEPT !.next = @ + 1,
                                        !.chain[runs[r].who] = identity.next,
                                        !.id[runs[r].who] = identity.next]
        /\ transactions' = Updated(transactions, runs[r].tx, "success")
        /\ messages' = Append(messages, TxMsg(runs[r].who, "success"))
     \/ /\ \/ identity' = [identity EXCEPT !.next = @ + 1,
                                           !.chain[runs[r].who] = identity.next]
           \/ UNCHANGED identity
        /\ UNCHANGED <<registered, transactions, messages>>
     \/ /\ \E h \in {0, runs[r].tx} : RegFailed(runs[r].who, h)
        /\ UNCHANGED <<registered, identity>>
  /\ runs' = [runs EXCEPT ![r].pc = "regRefresh"]
  /\ UNCHANGED <<flags, chain, agentABal, nextTx, pays, funds, withdrawal, probe>>

\* refreshBalances after register returns (207, 208), then the next step of start
RegRefresh(r) ==
  /\ runs[r].pc = "regRefresh"
  /\ agentABal' = chainUsdt
  /\ AfterRegs(r, runs[r], IF runs[r].who = "agentA" THEN {"agentA"} ELSE Agents)
  /\ UNCHANGED <<chain, registered, logs, pays, funds, withdrawal, identity, probe>>

\* ------------------------------------------------------ balances, funding
\* Refresh that also lifts the pause
RefreshResuming ==
  /\ agentABal # chainUsdt
  /\ agentABal' = chainUsdt
  /\ isPaused' = FALSE /\ pausedRef' = FALSE
  /\ UNCHANGED <<isRunning, cancelledRef, chain, registered, logs, runs, pays, funds, withdrawal,
                 identity, probe>>

\* refreshBalances on its 5 s timer (113-119, 130-135)
Refresh ==
  /\ agentABal # chainUsdt
  /\ agentABal' = chainUsdt
  /\ UNCHANGED <<flags, chain, registered, logs, runs, pays, funds, withdrawal, identity, probe>>

\* the "20 USDT" button of the payer's card: fundAgent sends the transfer (171-177)
FundAgent ==
  /\ funds.pc = "idle"
  /\ funds.count < MaxFunds
  /\ funds' = [funds EXCEPT !.pc = "tx", !.count = @ + 1]
  /\ UNCHANGED <<flags, chain, agentABal, registered, logs, runs, pays, withdrawal, identity, probe>>

\* the transfer is mined (177), or fails (179-180)
FundMined ==
  /\ funds.pc = "tx"
  /\ \/ /\ chainUsdt' = chainUsdt + FundUsdt
        /\ funds' = [funds EXCEPT !.pc = "refresh"]
     \/ /\ funds' = [funds EXCEPT !.pc = "idle"]
        /\ UNCHANGED chainUsdt
  /\ UNCHANGED <<flags, network, allowance, agentABal, registered, logs, runs, pays,
                 withdrawal, identity, probe>>

\* refreshBalances returns and fundingInProgress is cleared (178, 180)
FundRefreshed ==
  /\ funds.pc = "refresh"
  /\ agentABal' = chainUsdt
  /\ funds' = [funds EXCEPT !.pc = "idle"]
  /\ UNCHANGED <<flags, chain, registered, logs, runs, pays, withdrawal, identity, probe>>

\* ------------------------------------------------------ transferFundsToOwner
\* the "USDT" withdraw button of the payer's card (437), enabled while the cached
\* balance is not zero: transferFundsToOwner down to its reads (1477-1497)
Withdraw ==
  /\ withdrawal.pc = "idle"
  /\ withdrawal.count < MaxWithdraws
  /\ agentABal # 0
  /\ withdrawal' = [withdrawal EXCEPT !.pc = "read", !.count = @ + 1]
  /\ UNCHANGED <<flags, chain, agentABal, registered, logs, runs, pays, funds, identity, probe>>

\* balanceOf and decimals return (1496-1527): nothing to transfer, or the pending
\* record, with an empty hash, and the transfer of the whole balance
WithdrawRead ==
  /\ withdrawal.pc = "read"
  /\ IF chainUsdt = 0
     THEN /\ messages' = Append(messages, TxMsg("agentA", "failed"))
          /\ withdrawal' = [withdrawal EXCEPT !.pc = "idle"]
          /\ UNCHANGED transactions
     ELSE /\ transactions' = addTransaction(transactions, TxRec("agentA", "payment", 0, "pending"))
          /\ withdrawal' = [withdrawal EXCEPT !.pc = "transfer", !.amount = chainUsdt]
          /\ UNCHANGED messages
  /\ UNCHANGED <<flags, chain, agentABal, registered, nextTx, runs, pays, funds, identity, probe>>

\* transfer returns the transaction (1527-1530), or throws (1621-1636)
WithdrawSent ==
  /\ withdrawal.pc = "transfer"
  /\ \/ /\ nextTx' = nextTx + 1
        /\ withdrawal' = [withdrawal EXCEPT !.pc = "wait", !.tx = nextTx + 1]
        /\ UNCHANGED messages
     \/ /\ messages' = Append(messages, TxMsg("agentA", "failed"))
        /\ withdrawal' = [withdrawal EXCEPT !.pc = "idle"]
        /\ UNCHANGED nextTx
  /\ UNCHANGED <<flags, chain, agentABal, registered, transactions, runs, pays, funds, identity, probe>>

\* tx.wait returns a receipt of status 1 (1530-1542), or the transfer failed (1543-1545,
\* 1621-1636)
WithdrawMined ==
  /\ withdrawal.pc = "wait"
  /\ \/ /\ chainUsdt >= withdrawal.amount
        /\ chainUsdt' = chainUsdt - withdrawal.amount
        /\ transactions' = Updated(transactions, withdrawal.tx, "success")
        /\ messages' = Append(messages, TxMsg("agentA", "success"))
        /\ withdrawal' = [withdrawal EXCEPT !.pc = "refresh"]
     \/ /\ messages' = Append(messages, TxMsg("agentA", "failed"))
        /\ withdrawal' = [withdrawal EXCEPT !.pc = "idle"]
        /\ UNCHANGED <<chainUsdt, transactions>>
  /\ UNCHANGED <<flags, network, allowance, agentABal, registered, nextTx, runs, pays, funds, identity, probe>>

\* refreshBalancesAfterTx returns (437, 121-128)
WithdrawRefreshed ==
  /\ withdrawal.pc = "refresh"
  /\ agentABal' = chainUsdt
  /\ withdrawal' = [withdrawal EXCEPT !.pc = "idle"]
  /\ UNCHANGED <<flags, chain, registered, logs, runs, pays, funds, identity, probe>>

\* waitIfPaused before the payer's turn: the 400 ms poll finds the loop released
PollA(r) ==
  /\ runs[r].pc = "pollA"
  /\ ~(pausedRef /\ ~cancelledRef)
  /\ Goto(r, At(runs[r], IF cancelledRef THEN "done" ELSE "llmA"))
  /\ UNCHANGED <<chain, agentABal, registered, logs, pays, funds, withdrawal, identity, probe>>

\* LlmA in which the last exchange of the table is made with the closing prompt
LlmAClosing(r) ==
  /\ runs[r].pc = "llmA"
  /\ \E m \in LlmOut(runs[r], phases[runs[r].phase].name, "agentA") :
       Goto(r, At(Said(runs[r], "agentA",
                       IF IsPayment(runs[r].phase + 1) /\ runs[r].ex > 0
                       THEN "closing" ELSE phases[runs[r].phase].name, m), "delayA"))
  /\ UNCHANGED <<chain, agentABal, registered, logs, pays, funds, withdrawal, identity, probe>>

\* the payer's language-model call returns: lines 239-241
LlmA(r) ==
  /\ runs[r].pc = "llmA"
  /\ \E m \in LlmOut(runs[r], phases[runs[r].phase].name, "agentA") :
       Goto(r, At(Said(runs[r], "agentA", phases[runs[r].phase].name, m), "delayA"))
  /\ UNCHANGED <<chain, agentABal, registered, logs, pays, funds, withdrawal, identity, probe>>

\* DelayA without the cancelled check of line 243
DelayAUnchecked(r) ==
  /\ runs[r].pc = "delayA"
  /\ Goto(r, At(runs[r], IF pausedRef THEN "pollB" ELSE "llmB"))
  /\ UNCHANGED <<chain, agentABal, registered, logs, pays, funds, withdrawal, identity, probe>>

\* the 2 s delay ends: lines 243-245
DelayA(r) ==
  /\ runs[r].pc = "delayA"
  /\ Goto(r, At(runs[r], IF cancelledRef THEN "done"
                         ELSE IF pausedRef THEN "pollB" ELSE "llmB"))
  /\ UNCHANGED <<chain, agentABal, registered, logs, pays, funds, withdrawal, identity, probe>>

\* waitIfPaused before the payee's turn (line 244) returns; line 245 follows at once
PollB(r) ==
  /\ runs[r].pc = "pollB"
  /\ ~(pausedRef /\ ~cancelledRef)
  /\ Goto(r, At(runs[r], "llmB"))
  /\ UNCHANGED <<chain, agentABal, registered, logs, pays, funds, withdrawal, identity, probe>>

\* the payee's language-model call returns: lines 245-247
LlmB(r) ==
  /\ runs[r].pc = "llmB"
  /\ \E m \in LlmOut(runs[r], phases[runs[r].phase].name, "agentB") :
       Goto(r, At(Said(runs[r], "agentB", phases[runs[r].phase].name, m), "delayB"))
  /\ UNCHANGED <<chain, agentABal, registered, logs, pays, funds, withdrawal, identity, probe>>

\* DelayB with an inner loop that leaves the phase after its first exchange
DelayBSkipping(r) ==
  /\ runs[r].pc = "delayB"
  /\ LET ru == runs[r]
         nx == [ru EXCEPT !.phase = @ + 1, !.ex = 0]
     IN Goto(r, IF cancelledRef THEN At(ru, "done")
                ELSE At(nx, Top(cancelledRef, pausedRef, nx.phase)))
  /\ UNCHANGED <<chain, agentABal, registered, logs, pays, funds, withdrawal, identity, probe>>

\* the 2 s delay ends: exchange returns, line 318, then the next iteration
DelayB(r) ==
  /\ runs[r].pc = "delayB"
  /\ LET ru == runs[r]
         more == ru.ex + 1 < phases[ru.phase].exchanges
         nx == IF more THEN [ru EXCEPT !.ex = @ + 1]
               ELSE [ru EXCEPT !.phase = @ + 1, !.ex = 0]
     IN Goto(r, IF cancelledRef THEN At(ru, "done")
                ELSE At(nx, Top(cancelledRef, pausedRef, nx.phase)))
  /\ UNCHANGED <<chain, agentABal, registered, logs, pays, funds, withdrawal, identity, probe>>

\* the Stop button (rendered while isRunning): stopConversation
Stop ==
  /\ isRunning
  /\ cancelledRef' = TRUE /\ pausedRef' = FALSE
  /\ isRunning' = FALSE /\ isPaused' = FALSE
  /\ runs' = [r \in DOMAIN runs |->
               IF runs[r].pc \in LoopPcs
               THEN [runs[r] EXCEPT !.stopped = TRUE, !.mark = Len(runs[r].history),
                                    !.released = FALSE, !.superseded = FALSE]
               ELSE runs[r]]
  /\ UNCHANGED <<chain, agentABal, registered, logs, pays, funds, withdrawal, identity, probe>>

\* the Pause button (rendered while isRunning and not isPaused): pauseConversation
Pause ==
  /\ isRunning /\ ~isPaused
  /\ pausedRef' = TRUE /\ isPaused' = TRUE
  /\ UNCHANGED <<isRunning, cancelledRef, chain, agentABal, registered, logs, runs, pays, funds, withdrawal, identity, probe>>

\* Resume that clears the paused state of the display only
ResumeFlagOnly ==
  /\ isRunning /\ isPaused
  /\ isPaused' = FALSE
  /\ UNCHANGED <<isRunning, cancelledRef, pausedRef, chain, agentABal, registered, logs, runs,
                 pays, funds, withdrawal, identity, probe>>

\* the Resume button (rendered while isRunning and isPaused): resumeConversation
Resume ==
  /\ isRunning /\ isPaused
  /\ pausedRef' = FALSE /\ isPaused' = FALSE
  /\ UNCHANGED <<isRunning, cancelledRef, chain, agentABal, registered, logs, runs, pays, funds, withdrawal, identity, probe>>

\* ---------------------------------------------------------- sendPayment
\* One record per invocation.  caller is the run that awaits it (0: called directly);
\* payer is the agent whose hook is called, to the agent whose address is the recipient.
\* Book-keeping for the properties: approves, signs, verifies and settles count the
\* calls the invocation has submitted; read: it has read the payer's balance; low: the
\* balance on chain was below the amount when it was invoked; verdict: what verify
\* answered; after: it was invoked after an invocation that had its approval
\* confirmed and then failed in verify or settle.
LateErrs == {"VerificationFailed", "VerifyThrew", "SettlementFailed", "SettleThrew"}

NewPay(caller, amount) ==
  [caller |-> caller, payer |-> "agentA", to |-> "agentB",
   amount |-> amount, pc |-> "new", err |-> "none", tx |-> 0,
   read |-> FALSE, low |-> chainUsdt < amount, verdict |-> "none",
   after |-> \E j \in DOMAIN pays : pays[j].approves = 1 /\ pays[j].err \in LateErrs,
   approves |-> 0, signs |-> 0, verifies |-> 0, settles |-> 0]

PayMsg(status) == [from |-> "agentA", type |-> "payment", status |-> status]

\* sendPayment down to its first awaited call: lines 1105-1142, or 1179-1194 when the
\* token or the relayer address is not configured
Invoked(caller, amount) ==
  IF network.token /\ network.relayer
  THEN [NewPay(caller, amount) EXCEPT !.pc = "balanceOf"]
  ELSE [NewPay(caller, amount) EXCEPT !.pc = "sign", !.signs = 1]

\* Returned without the test of line 286: the caller goes on as if paid
ReturnedAsPaid(i, ok) ==
  LET r == pays[i].caller
  IN IF r = 0 THEN UNCHANGED <<runs, flags>>
     ELSE Goto(r, [runs[r] EXCEPT !.pc = "confirm"])

\* What the caller does when sendPayment returns (lines 286-313): with a transaction
\* hash it awaits refreshBalancesAfterTx, with null it ends the run.
Returned(i, ok) ==
  LET r == pays[i].caller
  IN IF r = 0 THEN UNCHANGED <<runs, flags>>
     ELSE Goto(r, IF ok THEN [runs[r] EXCEPT !.pc = "confirm"]
                  ELSE Ended(runs[r], "payment"))

\* the catch of sendPayment (1262-1279): one failed message, null returned.
\* said: the failed messages added before the throw (verify and settle add their own)
Failed(ps, i, err, said) ==
  /\ pays' = [ps EXCEPT ![i].pc = "failed", ![i].err = err]
  /\ messages' = messages \o said \o <<PayMsg("failed")>>
  /\ Returned(i, FALSE)

\* balanceOf and decimals return: lines 1142-1158
PayBalance(i) ==
  /\ pays[i].pc = "balanceOf"
  /\ \/ IF chainUsdt < pays[i].amount
        THEN Failed(pays, i, "InsufficientBalance", <<>>)
        ELSE /\ pays' = [pays EXCEPT ![i].pc = "allowance", ![i].read = TRUE]
             /\ UNCHANGED <<messages, runs, flags>>
     \/ Failed(pays, i, "CallFailed", <<>>)
  /\ UNCHANGED <<chain, agentABal, registered, transactions, nextTx, funds, withdrawal, identity, probe>>

\* PayAllowance without the test of line 1160: approve whatever the allowance is
PayAllowanceAlways(i) ==
  /\ pays[i].pc = "allowance"
  /\ pays' = [pays EXCEPT ![i].pc = "approve", ![i].approves = @ + 1]
  /\ UNCHANGED <<messages, runs, flags>>
  /\ UNCHANGED <<chain, agentABal, registered, transactions, nextTx, funds, withdrawal, identity, probe>>

\* allowance returns: lines 1158-1167, or on to 1179-1194
PayAllowance(i) ==
  /\ pays[i].pc = "allowance"
  /\ \/ /\ pays' = IF allowance < pays[i].amount
                   THEN [pays EXCEPT ![i].pc = "approve", ![i].approves = @ + 1]
                   ELSE [pays EXCEPT ![i].pc = "sign", ![i].signs = @ + 1]
        /\ UNCHANGED <<messages, runs, flags>>
     \/ Failed(pays, i, "CallFailed", <<>>)
  /\ UNCHANGED <<chain, agentABal, registered, transactions, nextTx, funds, withdrawal, identity, probe>>

\* PayApprove that approves the amount of this payment only
PayApproveExact(i) ==
  /\ pays[i].pc = "approve"
  /\ \/ /\ allowance' = pays[i].amount
        /\ nextTx' = nextTx + 1
        /\ pays' = [pays EXCEPT ![i].pc = "sign", ![i].signs = @ + 1]
        /\ UNCHANGED <<messages, runs, flags>>
     \/ /\ Failed(pays, i, "ApprovalFailed", <<>>)
        /\ UNCHANGED <<allowance, nextTx>>
  /\ UNCHANGED <<network, chainUsdt, agentABal, registered, transactions, funds, withdrawal, identity, probe>>

\* approve and its confirmation return (1167-1173), or throw
PayApprove(i) ==
  /\ pays[i].pc = "approve"
  /\ \/ /\ allowance' = Unlimited
        /\ nextTx' = nextTx + 1
        /\ pays' = [pays EXCEPT ![i].pc = "sign", ![i].signs = @ + 1]
        /\ UNCHANGED <<messages, runs, flags>>
     \/ /\ Failed(pays, i, "ApprovalFailed", <<>>)
        /\ UNCHANGED <<allowance, nextTx>>
  /\ UNCHANGED <<network, chainUsdt, agentABal, registered, transactions, funds, withdrawal, identity, probe>>

\* createPaymentPayload returns (1194-1198), or throws
PaySign(i) ==
  /\ pays[i].pc = "sign"
  /\ \/ /\ pays' = [pays EXCEPT ![i].pc = "verify", ![i].verifies = @ + 1]
        /\ UNCHANGED <<messages, runs, flags>>
     \/ Failed(pays, i, "SigningFailed", <<>>)
  /\ UNCHANGED <<chain, agentABal, registered, transactions, nextTx, funds, withdrawal, identity, probe>>

\* PayVerify without the test of line 1203: settle whatever verify answered
PayVerifyUnchecked(i) ==
  /\ pays[i].pc = "verify"
  /\ \E v \in {"valid", "invalid"} :
       pays' = [pays EXCEPT ![i].pc = "settle", ![i].settles = @ + 1, ![i].verdict = v]
  /\ UNCHANGED <<messages, runs, flags>>
  /\ UNCHANGED <<chain, agentABal, registered, transactions, nextTx, funds, withdrawal, identity, probe>>

\* facilitator.verify returns valid (1203-1205), invalid (1247-1261), or throws
PayVerify(i) ==
  /\ pays[i].pc = "verify"
  /\ \/ /\ pays' = [pays EXCEPT ![i].pc = "settle", ![i].settles = @ + 1,
                                ![i].verdict = "valid"]
        /\ UNCHANGED <<messages, runs, flags>>
     \/ Failed([pays EXCEPT ![i].verdict = "invalid"], i, "VerificationFailed",
               <<PayMsg("failed")>>)
     \/ Failed(pays, i, "VerifyThrew", <<>>)
  /\ UNCHANGED <<chain, agentABal, registered, transactions, nextTx, funds, withdrawal, identity, probe>>

\* PaySettle that submits settle once more when it reports failure
PaySettleRetrying(i) ==
  /\ pays[i].pc = "settle"
  /\ IF pays[i].settles < 2
     THEN /\ pays' = [pays EXCEPT ![i].settles = @ + 1]
          /\ UNCHANGED <<messages, runs, flags>>
     ELSE Failed(pays, i, "SettlementFailed", <<PayMsg("failed")>>)
  /\ UNCHANGED <<chain, agentABal, registered, transactions, nextTx, funds, withdrawal, identity, probe>>

\* PaySettle without the test of settleResult.transaction (1211): a settle that reports
\* success and no transaction is recorded as a success
PaySettleUntested(i) ==
  /\ pays[i].pc = "settle"
  /\ \/ /\ chainUsdt >= pays[i].amount /\ allowance >= pays[i].amount
        /\ chainUsdt' = chainUsdt - pays[i].amount
        /\ allowance' = IF allowance = Unlimited THEN allowance ELSE allowance - pays[i].amount
        /\ nextTx' = nextTx + 1
        /\ pays' = [pays EXCEPT ![i].pc = "success", ![i].tx = nextTx + 1]
        /\ transactions' =
             addTransaction(transactions, TxRec(pays[i].payer, "payment", nextTx + 1, "success"))
        /\ messages' = Append(messages, PayMsg("success"))
        /\ Returned(i, TRUE)
     \/ /\ pays' = [pays EXCEPT ![i].pc = "success"]
        /\ transactions' =
             addTransaction(transactions, TxRec(pays[i].payer, "payment", 0, "success"))
        /\ messages' = Append(messages, PayMsg("success"))
        /\ Returned(i, FALSE)
        /\ UNCHANGED <<chainUsdt, allowance, nextTx>>
     \/ /\ Failed(pays, i, "SettleThrew", <<>>)
        /\ UNCHANGED <<chainUsdt, allowance, nextTx, transactions>>
  /\ UNCHANGED <<network, agentABal, registered, funds, withdrawal, identity, probe>>

\* facilitator.settle returns success with a transaction (1211-1231): the relayer has
\* moved the tokens; or it reports failure (1232-1246), or throws
PaySettle(i) ==
  /\ pays[i].pc = "settle"
  /\ \/ /\ chainUsdt >= pays[i].amount /\ allowance >= pays[i].amount
        /\ chainUsdt' = chainUsdt - pays[i].amount
        /\ allowance' = IF allowance = Unlimited THEN allowance ELSE allowance - pays[i].amount
        /\ nextTx' = nextTx + 1
        /\ pays' = [pays EXCEPT ![i].pc = "success", ![i].tx = nextTx + 1]
        /\ transactions' =
             addTransaction(transactions, TxRec(pays[i].payer, "payment", nextTx + 1, "success"))
        /\ messages' = Append(messages, PayMsg("success"))
        /\ Returned(i, TRUE)
     \/ /\ Failed(pays, i, "SettlementFailed", <<PayMsg("failed")>>)
        /\ UNCHANGED <<chainUsdt, allowance, nextTx, transactions>>
     \/ /\ Failed(pays, i, "SettleThrew", <<>>)
        /\ UNCHANGED <<chainUsdt, allowance, nextTx, transactions>>
  /\ UNCHANGED <<network, agentABal, registered, funds, withdrawal, identity, probe>>

\* sendPayment called on its own, with an amount in hundredths
PayCall ==
  /\ Len(pays) < MaxCalls
  /\ \E amount \in {50, 700, 1000, 1300} : pays' = Append(pays, Invoked(0, amount))
  /\ UNCHANGED <<flags, chain, agentABal, registered, logs, runs, funds, withdrawal, identity, probe>>

\* ------------------------------------------------------- the payment branch
\* waitIfPaused before the payer's payment turn: lines 260-261
PollP(r) ==
  /\ runs[r].pc = "pollP"
  /\ ~(pausedRef /\ ~cancelledRef)
  /\ Goto(r, At(runs[r], IF cancelledRef THEN "done" ELSE "llmP"))
  /\ UNCHANGED <<chain, agentABal, registered, logs, pays, funds, withdrawal, identity, probe>>

\* LlmP in which a language-model call that throws ends the run
LlmPAborting(r) ==
  /\ runs[r].pc = "llmP"
  /\ \E m \in LlmOut(runs[r], "payment", "agentA") :
       Goto(r, IF m = AiError THEN Ended(Said(runs[r], "agentA", "payment", m), "error")
               ELSE At(Said(runs[r], "agentA", "payment", m), "delayP"))
  /\ UNCHANGED <<chain, agentABal, registered, logs, pays, funds, withdrawal, identity, probe>>

\* the payer's payment message returns: lines 263-265
LlmP(r) ==
  /\ runs[r].pc = "llmP"
  /\ \E m \in LlmOut(runs[r], "payment", "agentA") :
       Goto(r, At(Said(runs[r], "agentA", "payment", m), "delayP"))
  /\ UNCHANGED <<chain, agentABal, registered, logs, pays, funds, withdrawal, identity, probe>>

\* lines 268-271: the amount, from the balance the closure of this run holds
PayAmount(ru) == detectPaymentIntent(ru.history[Len(ru.history)].message, ru.history)
Clamp(payAmount, budget, bal) ==
  IF payAmount # NoAmount THEN Min(payAmount, Floor(bal)) ELSE Min(budget, Floor(bal))
CappedAmount(ru) == Clamp(PayAmount(ru), Budget(ru.bal), ru.bal)

\* DelayP that calls sendPayment twice
DelayPTwice(r) ==
  /\ runs[r].pc = "delayP"
  /\ IF CappedAmount(runs[r]) > 0
     THEN /\ messages' = Append(messages, PayMsg("pending"))
          /\ pays' = pays \o <<Invoked(r, CappedAmount(runs[r])), Invoked(r, CappedAmount(runs[r]))>>
          /\ Goto(r, [runs[r] EXCEPT !.pc = "pay", !.pay = Len(pays) + 1])
     ELSE /\ Goto(r, Ended(runs[r], "payment"))
          /\ UNCHANGED <<messages, pays>>
  /\ UNCHANGED <<chain, agentABal, registered, transactions, nextTx, funds, withdrawal, identity,
                 probe>>

\* DelayP in which the payee pays the payer
DelayPReversed(r) ==
  /\ runs[r].pc = "delayP"
  /\ IF CappedAmount(runs[r]) > 0
     THEN /\ messages' = Append(messages, PayMsg("pending"))
          /\ pays' = Append(pays, [Invoked(r, CappedAmount(runs[r]))
                                     EXCEPT !.payer = "agentB", !.to = "agentA"])
          /\ Goto(r, [runs[r] EXCEPT !.pc = "pay", !.pay = Len(pays) + 1])
     ELSE /\ Goto(r, Ended(runs[r], "payment"))
          /\ UNCHANGED <<messages, pays>>
  /\ UNCHANGED <<chain, agentABal, registered, transactions, nextTx, funds, withdrawal, identity,
                 probe>>

\* the 1.5 s delay ends: lines 268-285, the pending pill and the call of sendPayment,
\* or lines 309-313 when there is nothing to pay
DelayP(r) ==
  /\ runs[r].pc = "delayP"
  /\ IF CappedAmount(runs[r]) > 0
     THEN /\ messages' = Append(messages, PayMsg("pending"))
          /\ pays' = Append(pays, Invoked(r, CappedAmount(runs[r])))
          /\ Goto(r, [runs[r] EXCEPT !.pc = "pay", !.pay = Len(pays) + 1])
     ELSE /\ Goto(r, Ended(runs[r], "payment"))
          /\ UNCHANGED <<messages, pays>>
  /\ UNCHANGED <<chain, agentABal, registered, transactions, nextTx, funds, withdrawal, identity, probe>>

\* refreshBalancesAfterTx returns (lines 121-128, 287-290): the cached balance is read
\* from the chain again, then the 1.5 s delay before the thank-you starts
Confirm(r) ==
  /\ runs[r].pc = "confirm"
  /\ agentABal' = chainUsdt
  /\ Goto(r, [runs[r] EXCEPT !.pc = "delayT"])
  /\ UNCHANGED <<chain, registered, logs, pays, funds, withdrawal, identity, probe>>

\* DelayT without the thank-you: straight on to the closing turn
DelayTSkipping(r) ==
  /\ runs[r].pc = "delayT"
  /\ Goto(r, [runs[r] EXCEPT !.pc = "delayC"])
  /\ UNCHANGED <<chain, agentABal, registered, logs, pays, funds, withdrawal, identity, probe>>

\* lines 291-297: the payee's thank-you starts unless cancelled
DelayT(r) ==
  /\ runs[r].pc = "delayT"
  /\ Goto(r, [runs[r] EXCEPT !.pc = IF cancelledRef THEN "delayC" ELSE "llmT"])
  /\ UNCHANGED <<chain, agentABal, registered, logs, pays, funds, withdrawal, identity, probe>>

\* the thank-you returns: lines 292-297
LlmT(r) ==
  /\ runs[r].pc = "llmT"
  /\ \E m \in LlmOut(runs[r], "payment", "agentB") :
       Goto(r, At(Said(runs[r], "agentB", "payment", m), "delayC"))
  /\ UNCHANGED <<chain, agentABal, registered, logs, pays, funds, withdrawal, identity, probe>>

\* lines 298-299, or 309-313: the payer's closing turn starts unless cancelled
DelayC(r) ==
  /\ runs[r].pc = "delayC"
  /\ Goto(r, IF cancelledRef THEN Ended(runs[r], "payment") ELSE [runs[r] EXCEPT !.pc = "llmC"])
  /\ UNCHANGED <<chain, agentABal, registered, logs, pays, funds, withdrawal, identity, probe>>

\* the closing turn returns: lines 299-313
LlmC(r) ==
  /\ runs[r].pc = "llmC"
  /\ \E m \in LlmOut(runs[r], "closing", "agentA") :
       Goto(r, Ended(Said(runs[r], "agentA", "closing", m), "payment"))
  /\ UNCHANGED <<chain, agentABal, registered, logs, pays, funds, withdrawal, identity, probe>>

Pipeline ==
  \E i \in DOMAIN pays :
    PayBalance(i) \/ PayAllowance(i) \/ PayApprove(i) \/ PaySign(i) \/ PayVerify(i) \/ PaySettle(i)

Loop ==
  \E r \in DOMAIN runs :
    \/ PollA(r) \/ LlmA(r) \/ DelayA(r) \/ PollB(r) \/ LlmB(r) \/ DelayB(r)
    \/ PollP(r) \/ LlmP(r) \/ DelayP(r) \/ Confirm(r) \/ DelayT(r) \/ LlmT(r)
    \/ DelayC(r) \/ LlmC(r)

Register == \E r \in DOMAIN runs : RegSubmit(r) \/ RegWait(r) \/ RegRefresh(r)

Funding == FundAgent \/ FundMined \/ FundRefreshed

\* one conversation, while the owner funds the payer
Next == Start \/ Register \/ Stop \/ Pause \/ Resume \/ Loop \/ Pipeline \/ Refresh \/ Funding

Spec == Init /\ [][Next]_vars

\* Scheduling: a language-model call, a timer, a chain call and a facilitator call
\* that a run, a registration or a pipeline invocation awaits returns in the end; the
\* 400 ms poll of waitIfPaused sees a pause that has been lifted; and the user who has
\* paused the conversation presses Resume or Stop in the end.  The first conjunct is
\* strong fairness of Loop, with the states in which a step of Loop is possible
\* written out: a run stands in the loop, not awaiting sendPayment, and not in
\* waitIfPaused (218) while the pause lasts.
Fairness ==
  /\ \/ <>[]~(\E r \in DOMAIN runs :
                 /\ runs[r].pc \in LoopPcs \ {"pay"}
                 /\ runs[r].pc \in {"pollA", "pollB", "pollP"} => ~(pausedRef /\ ~cancelledRef))
     \/ []<><<Loop>>_vars
  /\ WF_vars(Pipeline)
  /\ WF_vars(Register)
  /\ WF_vars(isPaused /\ (Resume \/ Stop))

\* one conversation under that scheduling
SpecLive == Init /\ [][Next]_vars /\ Fairness

\* conversations one after, or over, the other
NextRestart == Restart \/ Stop \/ Pause \/ Resume \/ Loop \/ Pipeline \/ Refresh

SpecRestart == InitReady /\ [][NextRestart]_vars

Withdrawal == Withdraw \/ WithdrawRead \/ WithdrawSent \/ WithdrawMined \/ WithdrawRefreshed

\* one conversation, while the owner withdraws the payer's tokens
NextWithdraw ==
  StartPlain \/ Register \/ Stop \/ Pause \/ Resume \/ Loop \/ Pipeline \/ Refresh \/ Withdrawal

SpecWithdraw == Init /\ [][NextWithdraw]_vars

\* startConversation called on its own
NextStart == StartCall \/ Register \/ Stop \/ Pause \/ Resume \/ Loop \/ Pipeline \/ Refresh

SpecStart == InitStart /\ [][NextStart]_vars

\* the Register buttons
NextRegister == RegisterCall \/ Register

SpecRegister == InitRegister /\ [][NextRegister]_vars

\* sendPayment called on its own
NextPay == PayCall \/ Pipeline \/ Funding

SpecPay == InitPay /\ [][NextPay]_vars

\* ------------------------------------------- functions called on their own
\* the turns of a complete conversation: who speaks, in which phase
ExpectedTurns ==
  << <<"agentA", "networking">>, <<"agentB", "networking">>,
     <<"agentA", "discovery">>, <<"agentB", "discovery">>,
     <<"agentA", "negotiation">>, <<"agentB", "negotiation">>,
     <<"agentA", "negotiation">>, <<"agentB", "negotiation">>,
     <<"agentA", "delivery">>, <<"agentB", "delivery">>,
     <<"agentA", "delivery">>, <<"agentB", "delivery">>,
     <<"agentA", "payment">>, <<"agentB", "payment">>, <<"agentA", "closing">> >>

Tags(history) == [k \in DOMAIN history |-> <<history[k].from, history[k].phase>>]
PaymentTurn == Len(ExpectedTurns) - 2

\* everything but the probe
app == <<flags, chain, agentABal, registered, logs, runs, pays, funds, withdrawal, identity>>

InitProbe(probes) ==
  /\ InitApp({Configured}, {1250}, {0}, {[a \in Agents |-> TRUE]})
  /\ identity = Held(registered, registered)
  /\ probe \in probes

\* What stands for n in a text "<n> USDT": a decimal number of val hundredths, plain or
\* with a minus sign, or, not numeric, digits after a letter, or a word.
Written ==
  [form : {"plain", "minus", "letter"},
   val : {v \in 0..(MaxAmount + UNIT) : v % (UNIT \div 2) = 0}]
    \cup [form : {"word"}, val : {0}]

\* the text "<n> USDT" as extractAmount's patterns see it: they match digits, so the
\* sign or the letter before them is a token of its own
AmountText(n) ==
  CASE n.form = "plain" -> <<N(n.val), W("usdt")>>
    [] n.form = "minus" -> <<W("-"), N(n.val), W("usdt")>>
    [] n.form = "letter" -> <<W("x"), N(n.val), W("usdt")>>
    [] OTHER -> <<W("abc"), W("usdt")>>

\* the sequences of at most n elements of S
SeqUpTo(S, n) == UNION {[1..k -> S] : k \in 0..n}

\* words and numbers of the texts extractAmount is called with: what its patterns look
\* for, and numbers in the range, above it and zero
ExtractWords ==
  {W("usdt"), W("$"), W("payment"), W("of"), W("send"), W("hello"),
   N(5 * UNIT), N(7 * UNIT), N(2 * MaxAmount), N(0)}

InitExtract ==
  InitProbe({[fn |-> "extract", in |-> n, out |-> NoAmount, done |-> FALSE] : n \in Written}
              \cup {[fn |-> "extractText", in |-> t, out |-> NoAmount, done |-> FALSE] :
                       t \in SeqUpTo(ExtractWords, MaxWords + 1)})

\* extractAmount called with the text "<n> USDT"
ExtractCall ==
  /\ probe.fn = "extract" /\ ~probe.done
  /\ probe' = [probe EXCEPT !.out = extractAmount(AmountText(probe.in)), !.done = TRUE]
  /\ UNCHANGED app

\* extractAmount called with a text
ExtractTextCall ==
  /\ probe.fn = "extractText" /\ ~probe.done
  /\ probe' = [probe EXCEPT !.out = extractAmount(probe.in), !.done = TRUE]
  /\ UNCHANGED app

NextExtract == ExtractCall \/ ExtractTextCall

SpecExtract == InitExtract /\ [][NextExtract]_vars

\* words and numbers of the messages detectPaymentIntent is called with
Vocabulary ==
  {W("ill"), W("send"), W("sending"), W("great"), W("work"), W("heres"), W("payment"),
   W("usdt"), W("$"), W("hello"), N(5 * UNIT)}

InitDetect ==
  InitProbe({[fn |-> "detect", in |-> [text |-> t, history |-> h], out |-> NoAmount,
              done |-> FALSE] :
               t \in SeqUpTo(Vocabulary, MaxWords),
               h \in SeqUpTo({Tokens("Hello"), Tokens("Quote")}, MaxTurns)})

\* detectPaymentIntent called with a message and a history
DetectCall ==
  /\ probe.fn = "detect" /\ ~probe.done
  /\ probe' = [probe EXCEPT !.out = DetectIn(probe.in.text, probe.in.history), !.done = TRUE]
  /\ UNCHANGED app

SpecDetect == InitDetect /\ [][DetectCall]_vars

\* the histories of a conversation that has come to the payment phase: the turns of
\* the exchanges before it, each with an amount in its text or without one
InitPayAmount ==
  InitProbe({[fn |-> "payAmount", in |-> [prior |-> h, message |-> m], out |-> NoAmount,
              done |-> FALSE] :
               h \in {[k \in 1..(PaymentTurn - 1) |->
                         Turn(ExpectedTurns[k][1], ExpectedTurns[k][2], f[k])] :
                        f \in [1..(PaymentTurn - 1) -> {"Hello", "Quote"}]},
               m \in {"SendIt", "SendTen", "Thanks"}})

\* lines 264 and 268: the payer's payment message is pushed to the history, then
\* detectPaymentIntent is called with the message and the history
PayAmountCall ==
  /\ probe.fn = "payAmount" /\ ~probe.done
  /\ probe' = [probe EXCEPT
                 !.out = PayAmount([history |->
                                      Append(probe.in.prior,
                                             Turn("agentA", "payment", probe.in.message))]),
                 !.done = TRUE]
  /\ UNCHANGED app

SpecPayAmount == InitPayAmount /\ [][PayAmountCall]_vars

\* the registries findAgentIdOnChain is called on: the ids 1..minted, of which the
\* address owns none, one or two
InitFind ==
  \E m \in 0..MaxTokens, i \in 0..MaxTokens, j \in 0..MaxTokens :
    /\ i <= j /\ j <= m
    /\ InitProbe({[fn |-> "find", in |-> [minted |-> m, owned |-> {i, j} \ {0}],
                   out |-> <<>>, done |-> FALSE]})

\* findAgentIdOnChain called for an address
FindCall ==
  /\ probe.fn = "find" /\ ~probe.done
  /\ probe' = [probe EXCEPT !.out = findAgentIdOnChain(probe.in.minted, probe.in.owned),
                            !.done = TRUE]
  /\ UNCHANGED app

SpecFind == InitFind /\ [][FindCall]_vars

\* the items of the raw texts sanitizeResponse is called with
Alphabet ==
  {Label(s) : s \in Labels}
    \cup {Word(2), Word(DefaultCap - 1), Word(DeliveryCap - 1), Blank, Newline, Stars, Header, Rule}

InitSanitize ==
  InitProbe({[fn |-> "sanitize", in |-> [text |-> t, phase |-> ph, name |-> a],
              out |-> <<>>, done |-> FALSE] :
               t \in SeqUpTo(Alphabet, MaxItems), ph \in {"delivery", "payment"}, a \in Agents})

\* sanitizeResponse called with a raw text
SanitizeCall ==
  /\ probe.fn = "sanitize" /\ ~probe.done
  /\ probe' = [probe EXCEPT
                 !.out = sanitizeResponse(probe.in.text, probe.in.phase, probe.in.name),
                 !.done = TRUE]
  /\ UNCHANGED app

SpecSanitize == InitSanitize /\ [][SanitizeCall]_vars

\* the text of the message sendAIMessage returns (1456-1473): the sanitized text of the
\* language model, or, when the call throws, the error's message after the 12
\* characters of the prefix of line 1469
sendAIMessage(text, phase, name, throws) ==
  IF throws THEN <<Word(ErrorPrefixLen)>> \o text ELSE sanitizeResponse(text, phase, name)

\* a speaking step: the language model returns a raw text, or throws an error with a
\* message
InitSpeak ==
  InitProbe({[fn |-> "speak", in |-> [text |-> t, phase |-> ph, name |-> a, throws |-> th],
              out |-> <<>>, done |-> FALSE] :
               t \in SeqUpTo(Alphabet, MaxItems - 1), ph \in {"delivery", "payment"},
               a \in Agents, th \in BOOLEAN})

\* sendAIMessage returns and its message is pushed to the history (239-240, 245-246,
\* 263-264)
SpeakCall ==
  /\ probe.fn = "speak" /\ ~probe.done
  /\ probe' = [probe EXCEPT
                 !.out = <<Turn(probe.in.name, probe.in.phase,
                                sendAIMessage(probe.in.text, probe.in.phase, probe.in.name,
                                              probe.in.throws))>>,
                 !.done = TRUE]
  /\ UNCHANGED app

SpecSpeak == InitSpeak /\ [][SpeakCall]_vars

\* ============================================================== properties
\* the runs whose loop executes
Executing(rs) == {r \in DOMAIN rs : rs[r].pc \in LoopPcs}

\* this step starts a speaking step (a language-model call) of run r
Begins(r) ==
  /\ r \in DOMAIN runs'
  /\ runs'[r].pc \in LlmPcs
  /\ (r \in DOMAIN runs => runs[r].pc \notin LlmPcs)

\* this step is run r calling sendPayment
Invokes(r) == r \in DOMAIN runs /\ runs'[r].pay # runs[r].pay

\* the amount A of a run about to pay: extracted, or the fallback budget
Wanted(ru) == IF PayAmount(ru) # NoAmount THEN PayAmount(ru) ELSE Budget(ru.bal)

\* C1: whenever a run invokes sendPayment, the amount is min(A, floor(B)), with A the
\* amount extracted from the payer's payment message (or the fallback budget) and B
\* the payer's token balance (as cached, or as on chain), and the amount is above 0
C1_AmountIsClampedToBalance ==
  [][\A r \in DOMAIN runs :
       Invokes(r) =>
         LET amount == pays'[runs'[r].pay].amount
         IN /\ amount > 0
            /\ \/ amount = Min(Wanted(runs[r]), Floor(agentABal))
               \/ amount = Min(Wanted(runs[r]), Floor(chainUsdt))]_vars

\* C2: an invocation of sendPayment made while the payer's balance on chain is below
\* the amount (and not raised since) submits no approval, signing, verify or settle
\* call, and when it has ended it has failed with the insufficient-balance error (or
\* because the balance could not be read)
C2_InsufficientBalanceStopsThePipeline ==
  \A i \in DOMAIN pays :
    pays[i].low /\ funds.count = 0 =>
      /\ pays[i].approves = 0 /\ pays[i].signs = 0
      /\ pays[i].verifies = 0 /\ pays[i].settles = 0
      /\ pays[i].pc \in {"balanceOf", "failed"}
      /\ pays[i].pc = "failed" => pays[i].err \in {"InsufficientBalance", "CallFailed"}

\* C3: an invocation submits settle only after verify answered valid for the payload
\* it signed; after an invalid answer it has submitted no settle, has failed, and has
\* called verify once
C3_SettleOnlyAfterValidVerify ==
  \A i \in DOMAIN pays :
    /\ pays[i].settles > 0 => pays[i].verdict = "valid" /\ pays[i].signs = 1
    /\ pays[i].verdict = "invalid" =>
         /\ pays[i].settles = 0
         /\ pays[i].verifies = 1
         /\ pays[i].pc = "failed" /\ pays[i].err = "VerificationFailed"

C3_Witness ==
  \E i, j \in DOMAIN pays :
    /\ pays[i].verdict = "invalid" /\ pays[i].pc = "failed"
    /\ pays[j].verdict = "valid" /\ pays[j].settles = 1 /\ pays[j].pc = "success"

\* C4: an invocation submits at most one approval, one verify and one settle (and
\* signs at most one payload), whatever the outcomes
C4_NoStepIsRetried ==
  \A i \in DOMAIN pays :
    /\ pays[i].approves <= 1 /\ pays[i].signs <= 1
    /\ pays[i].verifies <= 1 /\ pays[i].settles <= 1

C4_Witness ==
  \E i \in DOMAIN pays :
    /\ pays[i].approves = 1 /\ pays[i].verifies = 1 /\ pays[i].settles = 1
    /\ pays[i].pc = "failed" /\ pays[i].err = "SettlementFailed"

\* C5 as stated: once stop() was called during a run, no turn is appended to the
\* history of that run and isRunning is false, until a start resets the flags
C5_NoTurnAfterStop ==
  [][\A r \in DOMAIN runs :
       runs[r].stopped /\ ~runs[r].released =>
         /\ runs'[r].history = runs[r].history
         /\ ~isRunning]_vars

\* C5 amended: once stop() was called during a run, at most one more turn is appended
\* to the history of that run and isRunning is false, until the cancelled flag is reset
C5_AtMostOneTurnAfterStop ==
  \A r \in DOMAIN runs :
    runs[r].stopped /\ ~runs[r].released =>
      /\ Len(runs[r].history) <= runs[r].mark + 1
      /\ ~isRunning

C5_Witness ==
  \E r \in DOMAIN runs :
    /\ runs[r].stopped /\ ~runs[r].released
    /\ runs[r].pc = "done"
    /\ Len(runs[r].history) = runs[r].mark + 1

\* C6: while the cancelled flag set by stop() stands, a run that was stopped starts no
\* speaking step and invokes no sendPayment
C6_NothingStartsAfterStop ==
  [][\A r \in DOMAIN runs :
       runs[r].stopped /\ cancelledRef => ~Begins(r) /\ ~Invokes(r)]_vars

\* C7: no speaking step of a run begins while the paused flag is set and the
\* cancelled flag is not
C7_NoSpeakingWhilePaused ==
  [][\A r \in DOMAIN runs : Begins(r) => ~(pausedRef /\ ~cancelledRef)]_vars

\* C8: at most one loop executes, and once a start has reset the flags a run that was
\* stopped appends no turn and invokes no sendPayment
C8_OneLoopAndNoRevival ==
  [][/\ Cardinality(Executing(runs')) <= 1
     /\ \A r \in DOMAIN runs :
          runs[r].superseded =>
            runs'[r].history = runs[r].history /\ ~Invokes(r)]_vars

\* C9: the turns of every run follow the order networking (1 exchange), discovery (1),
\* negotiation (2), delivery (2), payment, payer then payee in each exchange, none
\* skipped and none out of order, and only the thank-you and the closing turn, in
\* that order, follow the payer's payment turn; a run that was not stopped and has
\* ended has made all the exchanges and ended in the payment branch
C9_PhasesInOrder ==
  \A r \in DOMAIN runs :
    LET tags == Tags(runs[r].history)
        n == Min(Len(tags), PaymentTurn)
    IN /\ SubSeq(tags, 1, n) = SubSeq(ExpectedTurns, 1, n)
       /\ SubSeq(tags, n + 1, Len(tags)) \in
            {<<>>, <<ExpectedTurns[PaymentTurn + 1]>>, <<ExpectedTurns[PaymentTurn + 2]>>,
             <<ExpectedTurns[PaymentTurn + 1], ExpectedTurns[PaymentTurn + 2]>>}
       /\ runs[r].pc = "done" /\ ~runs[r].stopped =>
            /\ Len(tags) >= PaymentTurn
            /\ tags = SubSeq(ExpectedTurns, 1, Len(tags))
            /\ runs[r].end = "payment"

C9_Witness ==
  \E r \in DOMAIN runs :
    /\ runs[r].pc = "done" /\ ~runs[r].stopped
    /\ Len(runs[r].history) = Len(ExpectedTurns)
    /\ runs[r].end = "payment"

\* C10: when the sendPayment a run called has failed, the run has ended through the
\* end of the payment branch (nothing thrown to the caller of start) with isRunning
\* false, a failed payment message is recorded, and the payer's payment turn is the
\* last turn of its history: no thank-you, no closing turn
C10_PipelineFailureEndsTheRun ==
  \A r \in DOMAIN runs :
    runs[r].pay # 0 /\ pays[runs[r].pay].pc = "failed" =>
      /\ runs[r].pc = "done" /\ runs[r].end = "payment"
      /\ ~isRunning
      /\ Len(runs[r].history) = PaymentTurn
      /\ \E k \in DOMAIN messages : messages[k] = PayMsg("failed")

C10_Witness ==
  \E r \in DOMAIN runs :
    /\ runs[r].pay # 0
    /\ pays[runs[r].pay].pc = "failed" /\ pays[runs[r].pay].err = "ApprovalFailed"
    /\ runs[r].pc = "done"

\* the records of the log that are successful payments
Paid(txs) == {k \in DOMAIN txs : txs[k].type = "payment" /\ txs[k].status = "success"}

\* C11: once the pipeline has succeeded for a run that was not stopped, the log holds
\* exactly one successful payment record with the transaction of that invocation (and
\* one per successful invocation in all); no turn is added until the balances have
\* been refreshed; then come the payee's thank-you and the payer's closing turn, in
\* this order, and nothing else
C11_SuccessAddsOneRecordAndTwoTurns ==
  /\ Cardinality(Paid(transactions)) = Cardinality({i \in DOMAIN pays : pays[i].pc = "success"})
  /\ \A r \in DOMAIN runs :
       (runs[r].pay # 0 /\ pays[runs[r].pay].pc = "success" /\ ~runs[r].stopped) =>
         /\ Cardinality({k \in Paid(transactions) :
                           transactions[k].txHash = pays[runs[r].pay].tx}) = 1
         /\ runs[r].pc \in {"confirm", "delayT", "llmT", "delayC", "llmC", "done"}
         /\ Tags(runs[r].history) =
              Take(ExpectedTurns,
                   CASE runs[r].pc \in {"confirm", "delayT", "llmT"} -> PaymentTurn
                     [] runs[r].pc \in {"delayC", "llmC"} -> PaymentTurn + 1
                     [] OTHER -> PaymentTurn + 2)

C11_Witness ==
  \E r \in DOMAIN runs :
    /\ runs[r].pay # 0 /\ pays[runs[r].pay].pc = "success" /\ ~runs[r].stopped
    /\ runs[r].pc = "done"
    /\ Len(runs[r].history) = PaymentTurn + 2
    /\ Paid(transactions) # {}
\* C12: when a run comes to the payment step while the payer's token balance is 0 (on
\* chain and as cached), sendPayment is not invoked, no message and no record is
\* added, and the run ends with isRunning false
C12_ZeroBalanceSkipsThePayment ==
  [][\A r \in DOMAIN runs :
       (runs[r].pc = "delayP" /\ runs'[r].pc # "delayP" /\ chainUsdt = 0 /\ agentABal = 0) =>
         /\ pays' = pays
         /\ messages' = messages
         /\ transactions' = transactions
         /\ runs'[r].pc = "done"
         /\ ~isRunning']_vars
\* C13: an invocation of sendPayment submits an approval only when the allowance it
\* read is below its amount, and at most once; with an allowance of at least the
\* amount it goes on to sign without one
C13_ApprovalOnlyWhenAllowanceIsLow ==
  [][\A i \in DOMAIN pays :
       /\ pays'[i].approves > pays[i].approves =>
            allowance < pays[i].amount /\ pays[i].approves = 0
       /\ (pays[i].pc = "allowance" /\ pays'[i].pc # "allowance" /\ allowance >= pays[i].amount) =>
            pays'[i].approves = 0 /\ pays'[i].pc \in {"sign", "failed"}]_vars

C13_Witness ==
  \E i, j \in DOMAIN pays :
    /\ pays[i].read /\ pays[i].approves = 0 /\ pays[i].pc = "success"
    /\ pays[j].approves = 1 /\ pays[j].pc = "success"
\* C14: an invocation of sendPayment that has come to createPaymentPayload has read
\* the payer's balance on chain before and found it to be at least the amount,
\* whatever the network configuration
C14_BalanceIsReadBeforeSigning ==
  \A i \in DOMAIN pays : pays[i].signs > 0 => pays[i].read
\* C19: an invocation of sendPayment that starts after another one had its approval
\* confirmed and then failed in verify or in settle submits no approval, whatever its
\* amount
C19_ApprovalOutlivesAFailedPayment ==
  \A i \in DOMAIN pays : pays[i].after => pays[i].approves = 0

C19_Witness ==
  \E i \in DOMAIN pays :
    pays[i].after /\ pays[i].read /\ pays[i].amount > 700 /\ pays[i].pc = "success"
\* C20: every step leaves the records of the transaction log in place: none is
\* removed or moved, an existing record changes in its status only, and a record that
\* is success or failed does not change at all
C20_LogOnlyGrows ==
  [][/\ Len(transactions') >= Len(transactions)
     /\ \A k \in DOMAIN transactions :
          /\ [transactions'[k] EXCEPT !.status = transactions[k].status] = transactions[k]
          /\ transactions[k].status \in {"success", "failed"} =>
               transactions'[k] = transactions[k]]_vars

C20_Witness ==
  \E i, j, k \in DOMAIN transactions :
    /\ i < j /\ j < k
    /\ transactions[i] = TxRec("agentB", "register", transactions[i].txHash, "success")
    /\ transactions[j] = TxRec("agentA", "payment", transactions[j].txHash, "success")
    /\ transactions[k] = TxRec("agentA", "payment", 0, "pending")
    /\ withdrawal.pc = "idle"
\* the chain call that record rec was created for has not returned yet
InFlight(rec) ==
  \/ \E r \in DOMAIN runs :
       runs[r].pc = "regWait" /\ rec.type = "register" /\ rec.txHash = runs[r].tx
  \/ withdrawal.pc \in {"transfer", "wait"} /\ rec.type = "payment" /\ rec.txHash = 0

\* C17: a record of the transaction log is pending only while the chain call it was
\* created for (register, the transfer to the owner) is in flight: once the call is
\* confirmed or has thrown, the record is success or failed
C17_NoRecordStaysPending ==
  \A k \in DOMAIN transactions :
    transactions[k].status = "pending" => InFlight(transactions[k])
\* the log txs has a failed record of this type from agent a
HasFailed(txs, a, type) ==
  \E k \in DOMAIN txs : txs[k].from = a /\ txs[k].type = type /\ txs[k].status = "failed"

\* C18: a step in which a registration or an invocation of sendPayment fails leaves a
\* failed message as the last message and a failed record of it in the transaction log
C18_FailuresAreMessagedAndLogged ==
  [][/\ \A r \in DOMAIN runs :
          (runs[r].pc \in {"regSubmit", "regWait"} /\ runs'[r].pc = "regRefresh"
             /\ ~registered'[runs[r].who]) =>
            /\ Len(messages') > Len(messages)
            /\ messages'[Len(messages')] = TxMsg(runs[r].who, "failed")
            /\ HasFailed(transactions', runs[r].who, "register")
     /\ \A i \in DOMAIN pays :
          (pays[i].pc # "failed" /\ pays'[i].pc = "failed") =>
            /\ Len(messages') > Len(messages)
            /\ messages'[Len(messages')] = PayMsg("failed")
            /\ HasFailed(transactions', "agentA", "payment")]_vars
\* this step is one of run r, or starts it
Steps(r) == r \in DOMAIN runs' /\ (r \in DOMAIN runs => runs'[r] # runs[r])

\* C15: a run of startConversation without an openRouterKey returns at once: each of
\* its steps ends it and leaves the flags, the agents' registration, the messages and
\* the transaction log as they are, with no transaction submitted
C15_NoKeyNoSideEffect ==
  [][\A r \in DOMAIN runs' :
       (~runs'[r].key /\ Steps(r)) =>
         /\ runs'[r].pc = "done"
         /\ UNCHANGED <<flags, registered, logs>>]_vars

\* C16: a run is in a speaking step only while both agents are registered
C16_SpeakingOnlyWhenRegistered ==
  \A r \in DOMAIN runs : runs[r].pc \in LlmPcs => \A a \in Agents : registered[a]
\* the amounts the clamp of run ru yields from a balance that is current (as cached, or
\* as on chain) when the payment step is reached, the fallback budget being that of
\* the start or of now
LiveClamps(ru) ==
  {Clamp(PayAmount(ru), Budget(b), live) :
     b \in {ru.bal, agentABal, chainUsdt}, live \in {agentABal, chainUsdt}}

\* C21: when a run comes to the payment step after the payer's cached balance has
\* changed since Start was pressed, the clamp is taken against the balance as it is
\* now: sendPayment is invoked with such an amount, or, when that amount is 0, not
\* invoked
C21_ClampUsesTheCurrentBalance ==
  [][\A r \in DOMAIN runs :
       (runs[r].pc = "delayP" /\ runs'[r].pc # "delayP" /\ agentABal # runs[r].bal) =>
         IF Invokes(r)
         THEN pays'[runs'[r].pay].amount \in LiveClamps(runs[r]) \ {0}
         ELSE 0 \in LiveClamps(runs[r])]_vars

\* C22: whenever a run invokes sendPayment, the amount is above 0, at most 100 USDT
\* and at most the payer's token balance (as cached, or as on chain)
C22_AmountWithinCeilingAndBalance ==
  [][\A r \in DOMAIN runs :
       Invokes(r) =>
         LET amount == pays'[runs'[r].pay].amount
         IN /\ 0 < amount /\ amount <= MaxAmount
            /\ amount <= agentABal \/ amount <= chainUsdt]_vars
\* C27: register submits a registration transaction for an agent only when the
\* address of the agent holds no identity on chain
C27_NoSecondRegistration ==
  [][\A r \in DOMAIN runs :
       (runs[r].pc = "regSubmit" /\ runs'[r].pc = "regWait") =>
         identity.chain[runs[r].who] = 0]_vars

\* C28: once an agent is registered with an id, every step leaves it registered and
\* leaves its id as it is
C28_IdentityIsImmutable ==
  [][\A a \in Agents :
       (registered[a] /\ identity.id[a] # 0) =>
         registered'[a] /\ identity'.id[a] = identity.id[a]]_vars
\* C29: a step in which a balance refresh (on the timer, or after a transaction)
\* writes the cached balance leaves the flags, the transaction log and every run's
\* history and position in the phases as they are; the refresh that startConversation
\* awaits after register is followed at once by lines 211-213 and is left aside
C29_RefreshOnlyWritesBalances ==
  [][(/\ agentABal' # agentABal
      /\ \A r \in DOMAIN runs : runs[r].pc = "regRefresh" => runs'[r] = runs[r]) =>
       /\ UNCHANGED <<flags, transactions, messages>>
       /\ DOMAIN runs' = DOMAIN runs
       /\ \A r \in DOMAIN runs :
            /\ runs'[r].history = runs[r].history
            /\ runs'[r].phase = runs[r].phase /\ runs'[r].ex = runs[r].ex
            /\ runs'[r].pc # runs[r].pc => runs[r].pc = "confirm" /\ runs'[r].pc = "delayT"]_vars

C29_Witness ==
  \E r \in DOMAIN runs :
    /\ runs[r].pc \in LlmPcs /\ runs[r].history # <<>> /\ isPaused
    /\ funds.count > 0 /\ agentABal = chainUsdt /\ agentABal # runs[r].bal
Numeric(n) == n.form \in {"plain", "minus"}
Value(n) == IF n.form = "minus" THEN 0 - n.val ELSE n.val

\* C24: for the text "<n> USDT", extractAmount returns n when n is a number with
\* 0 < n <= 100, and no amount when n > 100, n <= 0 or n is not numeric
C24_ExtractReturnsTheAmountInRange ==
  (probe.fn = "extract" /\ probe.done) =>
    probe.out = IF Numeric(probe.in) /\ Value(probe.in) > 0 /\ Value(probe.in) <= MaxAmount
                THEN Value(probe.in)
                ELSE NoAmount
\* C23: detectPaymentIntent returns no amount for every message in which none of the
\* intent patterns matches, whatever amounts the message and the history hold
C23_NoIntentNoAmount ==
  (probe.fn = "detect" /\ probe.done /\ ~HasIntent(probe.in.text)) => probe.out = NoAmount

C23_Witness ==
  /\ probe.fn = "detect" /\ probe.done /\ ~HasIntent(probe.in.text)
  /\ extractAmount(probe.in.text) # NoAmount
  /\ probe.in.history # <<>> /\ FirstHit(probe.in.history) # NoAmount
  /\ \E i \in DOMAIN probe.in.text : HasSend(probe.in.text[i])
  /\ probe.out = NoAmount
\* C25: no line of the output of sanitizeResponse begins with a label of the other
\* role
C25_NoLineOfTheOtherRole ==
  (probe.fn = "sanitize" /\ probe.done) =>
    \A i \in DOMAIN SplitLines(probe.out) :
      ~BeginsWith(SplitLines(probe.out)[i], OtherLabels(probe.in.name))

\* C26: the output of sanitizeResponse is not empty, and is at most 1200 characters
\* long in the delivery phase and at most 500 in every other phase
C26_OutputWithinTheCap ==
  (probe.fn = "sanitize" /\ probe.done) =>
    /\ Length(probe.out) > 0
    /\ Length(probe.out) <= IF probe.in.phase = "delivery" THEN DeliveryCap ELSE DefaultCap

C26_Witness ==
  /\ probe.fn = "sanitize" /\ probe.done
  /\ probe.in.phase # "delivery"
  /\ Length(probe.in.text) > DeliveryCap
  /\ Length(probe.out) = DefaultCap - 1
\* C31: extractAmount returns the capture of the first pattern, in the order of its
\* list, whose capture n has 0 < n <= 100, passing over the patterns that do not match
\* or capture a number out of that range; what it returns is in that range, and it
\* returns no amount when no pattern captures a number in the range
C31_FirstPatternInRange ==
  (probe.fn = "extractText" /\ probe.done) =>
    IF probe.out = NoAmount
    THEN \A k \in 1..5 : ~InRange(Capture(probe.in, k))
    ELSE /\ InRange(probe.out)
         /\ \E k \in 1..5 :
              /\ Capture(probe.in, k) = probe.out
              /\ \A j \in 1..(k - 1) : ~InRange(Capture(probe.in, j))

C31_Witness ==
  /\ probe.fn = "extractText" /\ probe.done
  /\ Capture(probe.in, 1) > MaxAmount
  /\ FirstAt(probe.in, 2) = 0
  /\ FirstAt(probe.in, 3) # 0
  /\ probe.out = Capture(probe.in, 3)
  /\ InRange(probe.out)
\* C32: when the payer's payment message holds an intent phrase and no amount, the
\* amount detected is the first one found in the 8 most recent turns before that
\* message, newest first, and none when these 8 turns hold no amount
C32_ScansEightPriorTurns ==
  (/\ probe.fn = "payAmount" /\ probe.done
   /\ HasIntent(Tokens(probe.in.message))
   /\ extractAmount(Tokens(probe.in.message)) = NoAmount) =>
    probe.out = FirstAmount(Take(Reverse(probe.in.prior), HistoryScan))
\* C33: every turn pushed to the history is within the length cap of sanitizeResponse
\* for its phase, also when the language-model call threw
C33_HistoryTurnsAreWithinTheCap ==
  (probe.fn = "speak" /\ probe.done) =>
    \A k \in DOMAIN probe.out :
      Length(probe.out[k].message) <=
        IF probe.out[k].phase = "delivery" THEN DeliveryCap ELSE DefaultCap
\* C34: findAgentIdOnChain returns null without an ownerOf read when the address owns
\* no token; otherwise, on a registry that has minted the ids 1..M, it returns the
\* largest id the address owns; an id it returns is owned by the address
C34_FindsTheNewestTokenOfTheAddress ==
  (probe.fn = "find" /\ probe.done) =>
    IF probe.in.owned = {}
    THEN probe.out.id = 0 /\ probe.out.reads = 0
    ELSE /\ probe.out.id \in probe.in.owned
         /\ \A id \in probe.in.owned : id <= probe.out.id

C34_Witness ==
  /\ probe.fn = "find" /\ probe.done
  /\ probe.in.minted > 2 * FirstProbe
  /\ Cardinality(probe.in.owned) = 2
  /\ probe.out.id > FirstProbe /\ probe.out.id < probe.in.minted
  /\ probe.out.id \in probe.in.owned
\* C35: a turn made with the closing prompt is the payer's, comes after the payment
\* turn of a run whose sendPayment has succeeded, and is the last turn of the run,
\* which has ended; no turn of the exchanges before the payment branch is a closing one
C35_ClosingOnlyAfterPayment ==
  \A r \in DOMAIN runs :
    \A k \in DOMAIN runs[r].history :
      runs[r].history[k].phase = "closing" =>
        /\ runs[r].history[k].from = "agentA"
        /\ k > PaymentTurn
        /\ k = Len(runs[r].history)
        /\ runs[r].pc = "done" /\ runs[r].end = "payment"
        /\ runs[r].pay # 0 /\ pays[runs[r].pay].pc = "success"

C35_Witness ==
  \E r \in DOMAIN runs :
    /\ Len(runs[r].history) = PaymentTurn + 2
    /\ runs[r].history[PaymentTurn + 2].phase = "closing"
    /\ runs[r].history[PaymentTurn + 1].message = AiError
    /\ runs[r].pc = "done"
\* C36: stop() leaves the invocations of sendPayment, the chain, the log and the
\* messages as they are; an invocation that succeeds adds its success record and its
\* success message, stopped or not; and a run that was stopped after its payment turn
\* and has called sendPayment appends no turn any more: the thank-you and the closing
\* turn are not started
C36_StopDoesNotUndoThePayment ==
  [][/\ (~cancelledRef /\ cancelledRef') => UNCHANGED <<pays, chain, transactions, messages>>
     /\ \A i \in DOMAIN pays :
          (pays[i].pc # "success" /\ pays'[i].pc = "success") =>
            /\ \E k \in Paid(transactions') \ DOMAIN transactions :
                 transactions'[k].txHash = pays'[i].tx
            /\ messages' = Append(messages, PayMsg("success"))
     /\ \A r \in DOMAIN runs :
          (/\ runs[r].stopped /\ runs[r].mark = PaymentTurn
           /\ runs[r].pc \in {"pay", "confirm", "delayT", "delayC"}) =>
            /\ runs'[r].history = runs[r].history
            /\ runs'[r].pc \notin {"llmT", "llmC"}]_vars
C38_OnePaymentPerRunAfterThePaymentTurn ==
  \A r \in DOMAIN runs :
    /\ Cardinality({i \in DOMAIN pays : pays[i].caller = r}) <= 1
    /\ \A i \in DOMAIN pays :
         pays[i].caller = r =>
           /\ runs[r].pay = i
           /\ IsPayment(runs[r].phase)
           /\ Len(runs[r].history) >= PaymentTurn
           /\ Tags(runs[r].history)[PaymentTurn] = <<"agentA", "payment">>

C38_Witness ==
  \E r, q \in DOMAIN runs :
    /\ r # q
    /\ runs[r].pay # 0 /\ runs[q].pay # 0 /\ runs[r].pay # runs[q].pay
    /\ runs[r].pc = "done" /\ runs[q].pc = "done"
\* where a run stands after a speaking step, and who spoke
AfterSpeaking(pc) ==
  CASE pc = "llmA" -> "delayA" [] pc = "llmB" -> "delayB" [] pc = "llmP" -> "delayP"
    [] pc = "llmT" -> "delayC" [] OTHER -> "done"
Speaker(pc) == IF pc \in {"llmB", "llmT"} THEN "agentB" ELSE "agentA"

\* C39: a speaking step whose language-model call throws pushes the error text to the
\* history as the turn of the speaker and leaves the run where a step that succeeds
\* leaves it; after a payment turn that failed the run calls sendPayment with the
\* fallback budget, or ends without a payment when that budget is 0
C39_AiFailureDoesNotAbortTheRun ==
  [][\A r \in DOMAIN runs :
       /\ (/\ runs[r].pc \in LlmPcs
           /\ runs'[r].history # runs[r].history
           /\ runs'[r].history[Len(runs'[r].history)].message = AiError) =>
            /\ Len(runs'[r].history) = Len(runs[r].history) + 1
            /\ SubSeq(runs'[r].history, 1, Len(runs[r].history)) = runs[r].history
            /\ runs'[r].history[Len(runs'[r].history)].from = Speaker(runs[r].pc)
            /\ runs'[r].pc = AfterSpeaking(runs[r].pc)
       /\ (/\ runs[r].pc = "delayP" /\ runs'[r].pc # "delayP"
           /\ runs[r].history[Len(runs[r].history)].message = AiError) =>
            IF Budget(runs[r].bal) > 0
            THEN Invokes(r) /\ pays'[runs'[r].pay].amount = Budget(runs[r].bal)
            ELSE pays' = pays /\ runs'[r].pc = "done"]_vars

C39_Witness ==
  \E r \in DOMAIN runs :
    /\ Len(runs[r].history) = PaymentTurn + 2
    /\ runs[r].history[PaymentTurn].message = AiError
    /\ runs[r].pay # 0 /\ pays[runs[r].pay].amount = Budget(runs[r].bal)
    /\ pays[runs[r].pay].pc = "success"
    /\ runs[r].pc = "done"
\* C40: every successful payment record of the log carries the transaction that settle
\* reported, with success, to an invocation of sendPayment whose verify was valid;
\* an invocation has a transaction to return exactly when it has succeeded and added
\* that record, once; after a failure it has none and has added no record; and a run
\* goes on to the refresh and the closing turns only with a transaction returned
C40_SuccessRecordIffSettled ==
  /\ \A k \in Paid(transactions) :
       \E i \in DOMAIN pays :
         /\ pays[i].pc = "success" /\ pays[i].settles = 1 /\ pays[i].verdict = "valid"
         /\ pays[i].tx # 0 /\ transactions[k].txHash = pays[i].tx
  /\ \A i \in DOMAIN pays :
       /\ pays[i].tx # 0 <=> pays[i].pc = "success"
       /\ Cardinality({k \in Paid(transactions) : transactions[k].txHash = pays[i].tx}) =
            IF pays[i].pc = "success" THEN 1 ELSE 0
  /\ \A r \in DOMAIN runs :
       runs[r].pc \in {"confirm", "delayT", "llmT", "delayC", "llmC"} =>
         runs[r].pay # 0 /\ pays[runs[r].pay].tx # 0

C40_Witness ==
  \E i \in DOMAIN pays, k, j \in DOMAIN transactions :
    /\ pays[i].pc = "success" /\ pays[i].tx # 0
    /\ transactions[k] = TxRec("agentA", "payment", pays[i].tx, "success")
    /\ transactions[j] = TxRec("agentA", "payment", 0, "pending")
    /\ j < k
    /\ withdrawal.pc = "idle" /\ withdrawal.tx # 0
====
